---- MODULE Spec2Model ----
(***************************************************************************)
(* FfReader: the decoder of MQDB (.ff) containers.                         *)
(*                                                                         *)
(* The container is modelled as the sequence of its bytes, the ifstream as *)
(* a read position and a failbit, and every decoding step reads the bytes  *)
(* the code reads, at the offsets the code computes.  A uint32_t is kept   *)
(* as the integer with the same 32-bit pattern (values of 2^31 and more    *)
(* are the negative integers of two's complement), so 0xFFFFFFFF is -1.    *)
(***************************************************************************)
EXTENDS Integers, Sequences, FiniteSets, TLC

VARIABLES
    ffFile,          \* the bytes of the file named by ffFilePath
    canOpen,         \* whether std::ifstream can open ffFilePath
    readImageData,   \* the constructor's second argument
    stackFill,       \* the byte an uninitialized local holds before its first write
    slack,           \* the bytes of the heap that follow a std::vector<char> buffer
    pc,              \* the constructor's position, then "done" or "threw"
    err,             \* the what() of the exception thrown, "" if none
    file,            \* the constructor's ifstream: [pos, fail]
    tableOfContents, \* std::map<RecordId, TocRecord>
    recordNames,     \* std::map<std::string, RecordId>
    indexData,       \* IndexData
    packedImages,    \* std::map<RelativeOffset, PackedImage>
    i,               \* the loop counter of the running stage
    total,           \* entriesTotal / namesTotal / total of the running stage
    record,          \* readTableOfContents' local TocRecord, as its 16 bytes
    name,            \* readNameList's local char name[256]
    recordHeader,    \* readNameList's local MqrcHeader, as its 28 bytes
    contents,        \* readIndex' / readImages' local buffer
    byteOffset,      \* readIndex' / readImages' running offset into contents
    byName,          \* the last getRecordData(recordName, data): its argument,
                     \* the data given, the value returned and the data left
    byId,            \* the last getRecordData(recordId, data), likewise
    given            \* what the file was built from (see Container)

vars == <<ffFile, canOpen, readImageData, stackFill, slack, pc, err, file,
          tableOfContents, recordNames, indexData, packedImages, i, total,
          record, name, recordHeader, contents, byteOffset, byName, byId,
          given>>

----------------------------------------------------------------------------
(* Sizes and magic numbers of the format. *)

MqdbHeaderSize == 24
TocRecordSize == 16
MqrcHeaderSize == 28
Uint32Size == 4
NameSize == 256
NameList == 2
mqdbFileVersion == 9
paletteSize == 11 + 1024

\* the largest buffer the model lets the process allocate
AllocLimit == 65536

\* how many bytes of the heap behind a buffer can be read
SlackSize == 16

FFSIGNATURE(a, b, c, d) == d * 16777216 + c * 65536 + b * 256 + a

mqdbFileSignature == FFSIGNATURE(77, 81, 68, 66)
mqrcSignature == FFSIGNATURE(77, 81, 82, 67)

\* "-INDEX.OPT" and "-IMAGES.OPT" as their characters
indexOptRecordName == <<45, 73, 78, 68, 69, 88, 46, 79, 80, 84>>
imagesOptRecordName == <<45, 73, 77, 65, 71, 69, 83, 46, 79, 80, 84>>

\* std::numeric_limits<RecordId>::max(), 0xFFFFFFFF
RecordIdMax == -1

----------------------------------------------------------------------------
(* Bytes and 32-bit words. *)

Fill(n, b) == [k \in 1..n |-> b]

\* bytes s[from+1 .. from+n] of a sequence (offsets count from 0, as in C)
Bytes(s, from, n) == SubSeq(s, from + 1, from + n)

\* the little-endian uint32_t held by four bytes
U32(b) == b[1] + 256 * b[2] + 65536 * b[3]
          + 16777216 * (IF b[4] < 128 THEN b[4] ELSE b[4] - 256)

\* the four bytes of a uint32_t, little-endian
LE32(v) == <<v % 256, (v \div 256) % 256, (v \div 65536) % 256,
             (v \div 16777216) % 256>>

\* a < b on uint32_t
ULess(a, b) == IF (a < 0) = (b < 0) THEN a < b ELSE b < 0

\* strlen: the number of bytes in front of the first 0 byte that s holds at
\* or after offset from; s must hold one
StrLen(s, from) ==
    (CHOOSE k \in (from + 1)..Len(s) :
        s[k] = 0 /\ \A j \in (from + 1)..(k - 1) : s[j] # 0) - from - 1

\* the characters of the C string stored in s from offset from on
CString(s, from) == Bytes(s, from, StrLen(s, from))

\* whether s holds a 0 byte at or after offset from
HasNul(s, from) == \E k \in (from + 1)..Len(s) : s[k] = 0

RECURSIVE Concat(_)
Concat(ss) == IF ss = <<>> THEN <<>> ELSE Head(ss) \o Concat(Tail(ss))

EmptyMap == [k \in {} |-> 0]

----------------------------------------------------------------------------
(* The layout of a container, field by field: what the decoder is given.   *)

MqdbHeaderBytes(signature, version) ==
    LE32(signature) \o LE32(0) \o LE32(version) \o Fill(12, 0)

TocRecordBytes(r) ==
    LE32(r.recordId) \o LE32(r.size) \o LE32(r.sizeAllocated) \o LE32(r.offset)

MqrcHeaderBytes(signature, recordId, size, used) ==
    LE32(signature) \o LE32(0) \o LE32(recordId) \o LE32(size) \o LE32(size)
    \o LE32(used) \o LE32(0)

\* one entry of the name list: the name in a 256-byte slot, then the id
NameEntryBytes(e) == e.name \o Fill(NameSize - Len(e.name), 0) \o LE32(e.id)

NameListPayload(entries) ==
    LE32(Len(entries))
    \o Concat([k \in 1..Len(entries) |-> NameEntryBytes(entries[k])])

\* one entry of '-INDEX.OPT'
IndexEntryBytes(e) ==
    LE32(e.id) \o e.name \o <<0>> \o LE32(e.offset) \o LE32(e.size)

IndexPayload(entries) ==
    LE32(Len(entries))
    \o Concat([k \in 1..Len(entries) |-> IndexEntryBytes(entries[k])])

ImagePartBytes(p) ==
    LE32(p.sourceX) \o LE32(p.sourceY) \o LE32(p.targetX) \o LE32(p.targetY)
    \o LE32(p.width) \o LE32(p.height)

ImageFrameBytes(f) ==
    f.name \o <<0>> \o LE32(Len(f.parts)) \o LE32(f.width) \o LE32(f.height)
    \o Concat([k \in 1..Len(f.parts) |-> ImagePartBytes(f.parts[k])])

PackedImageBytes(img) ==
    img.palette \o LE32(Len(img.frames))
    \o Concat([k \in 1..Len(img.frames) |-> ImageFrameBytes(img.frames[k])])

\* the payload of '-IMAGES.OPT'
ImagesPayload(images) ==
    Concat([k \in 1..Len(images) |-> PackedImageBytes(images[k])])

\* the file offsets of records laid out one after the other from start on
RECURSIVE RecordOffsets(_, _)
RecordOffsets(recs, start) ==
    IF recs = <<>> THEN <<>>
    ELSE <<start>> \o RecordOffsets(Tail(recs),
                                   start + MqrcHeaderSize + Len(Head(recs).payload))

\* A container: header, ToC offset, then the ToC and the MQRC records (the
\* ToC in front of the records or behind them).  A record is given as
\* [id, signature, used, payload, size, offset]: size is the size its ToC
\* entry declares, offset = -1 stands for the place the record is stored at.
\* tocExtra are further ToC entries, cut >= 0 keeps the first cut bytes only.
Container(c) ==
    LET n == Len(c.recs) + Len(c.tocExtra)
        tocSize == Uint32Size + n * TocRecordSize
        bodyAt == MqdbHeaderSize + Uint32Size
        recsAt == IF c.tocFront THEN bodyAt + tocSize ELSE bodyAt
        offs == RecordOffsets(c.recs, recsAt)
        recBytes == Concat([k \in 1..Len(c.recs) |->
                        MqrcHeaderBytes(c.recs[k].signature, c.recs[k].id,
                                        Len(c.recs[k].payload), c.recs[k].used)
                        \o c.recs[k].payload])
        tocAt == IF c.tocFront THEN bodyAt ELSE bodyAt + Len(recBytes)
        toc == [k \in 1..Len(c.recs) |->
                    [recordId |-> c.recs[k].id, size |-> c.recs[k].size,
                     sizeAllocated |-> Len(c.recs[k].payload),
                     offset |-> IF c.recs[k].offset = -1 THEN offs[k]
                                ELSE c.recs[k].offset]] \o c.tocExtra
        tocBytes == LE32(n) \o Concat([k \in 1..n |-> TocRecordBytes(toc[k])])
        whole == MqdbHeaderBytes(c.signature, c.version) \o LE32(tocAt)
                 \o (IF c.tocFront THEN tocBytes \o recBytes
                     ELSE recBytes \o tocBytes)
    IN  IF c.cut >= 0 /\ c.cut < Len(whole) THEN SubSeq(whole, 1, c.cut) ELSE whole

----------------------------------------------------------------------------
(* std::ifstream over ffFile: a position and the failbit.  A read that     *)
(* cannot deliver every byte sets failbit, and a stream with failbit set   *)
(* neither reads nor seeks any more.                                       *)

Min(a, b) == IF a < b THEN a ELSE b

\* file.read(buf, Len(buf)): the bytes delivered overwrite the front of buf,
\* the rest of buf keeps what it held
Read(f, buf) ==
    IF f.fail THEN [file |-> f, buf |-> buf]
    ELSE LET avail == IF f.pos < 0 \/ f.pos >= Len(ffFile) THEN 0
                      ELSE Len(ffFile) - f.pos
             got == Min(Len(buf), avail)
         IN  [file |-> [pos |-> IF got > 0 THEN f.pos + got ELSE f.pos,
                        fail |-> got < Len(buf)],
              buf |-> Bytes(ffFile, f.pos, got) \o SubSeq(buf, got + 1, Len(buf))]

\* file.seekg(pos)
Seekg(f, pos) == IF f.fail THEN f ELSE [pos |-> pos, fail |-> FALSE]

\* file.tellg()
Tellg(f) == IF f.fail THEN -1 ELSE f.pos

\* readUint32(std::ifstream&): value starts as 0
readUint32File(f) ==
    LET r == Read(f, Fill(Uint32Size, 0)) IN [file |-> r.file, value |-> U32(r.buf)]

----------------------------------------------------------------------------
(* Lookups. A pointer result is a sequence: NULL, or <<the record>>.       *)

NULL == <<>>

\* a uint32_t field of a structure held as its bytes
Field(b, at) == U32(Bytes(b, at, Uint32Size))

\* the TocRecord held by 16 bytes
TocRecordOf(b) ==
    [recordId |-> Field(b, 0), size |-> Field(b, 4),
     sizeAllocated |-> Field(b, 8), offset |-> Field(b, 12)]

findTocRecord(recordId) ==
    IF recordId \in DOMAIN tableOfContents THEN <<tableOfContents[recordId]>>
    ELSE NULL

findTocRecordByName(recordName) ==
    IF recordName \in DOMAIN recordNames
    THEN findTocRecord(recordNames[recordName]) ELSE NULL

----------------------------------------------------------------------------
(* The constructor, stage by stage.                                        *)

Throw(what) == pc' = "threw" /\ err' = what

inputs == <<ffFile, canOpen, readImageData, stackFill, slack, given>>
tables == <<tableOfContents, recordNames, indexData, packedImages>>
calls == <<byName, byId>>

\* std::ifstream file(ffFilePath, binary); if (!file) throw
Open ==
    /\ pc = "open"
    /\ IF canOpen THEN pc' = "checkFileHeader" /\ err' = err
       ELSE Throw("Could not open MQDB file")
    /\ UNCHANGED <<inputs, tables, calls, file, i, total, record, name,
                   recordHeader, contents, byteOffset>>

\* HeaderCheck without its version check
HeaderCheckAnyVersion(header) ==
    IF Field(header, 0) # mqdbFileSignature THEN "Not a MQDB file" ELSE ""

\* the outcome of the header checks on the 24 bytes of the local header
HeaderCheck(header) ==
    IF Field(header, 0) # mqdbFileSignature THEN "Not a MQDB file"
    ELSE IF Field(header, 8) # mqdbFileVersion THEN "Wrong MQDB file version"
    ELSE ""

checkFileHeader ==
    /\ pc = "checkFileHeader"
    /\ LET r == Read(file, Fill(MqdbHeaderSize, stackFill))
           what == HeaderCheck(r.buf)
       IN  /\ file' = r.file
           /\ IF what # "" THEN Throw(what)
              ELSE pc' = "readTableOfContents" /\ err' = err
    /\ UNCHANGED <<inputs, tables, calls, i, total, record, name,
                   recordHeader, contents, byteOffset>>

\* readTableOfContents up to its loop
readTableOfContents ==
    /\ pc = "readTableOfContents"
    /\ LET tocOffset == readUint32File(file)
           entriesTotal == readUint32File(Seekg(tocOffset.file, tocOffset.value))
       IN  /\ file' = entriesTotal.file
           /\ total' = entriesTotal.value
           /\ i' = 0
           /\ pc' = IF ULess(0, entriesTotal.value) THEN "tocLoop"
                    ELSE "readNameList"
    /\ UNCHANGED <<inputs, tables, calls, err, record, name, recordHeader,
                   contents, byteOffset>>

\* InsertTocRecord without its check: a record read later replaces the one
\* stored under its id
InsertTocRecordOverwriting(toc, rec) ==
    [what |-> "", toc |-> (rec.recordId :> rec) @@ toc]

\* what one pass of the ToC loop does with the record it read: "" and the
\* table with the record inserted, or the exception
InsertTocRecord(toc, rec) ==
    IF rec.recordId \in DOMAIN toc
    THEN [what |-> "MQDB ToC contains records with non-unique ids", toc |-> toc]
    ELSE [what |-> "", toc |-> (rec.recordId :> rec) @@ toc]

\* one pass of readTableOfContents' loop
readTocRecord ==
    /\ pc = "tocLoop"
    /\ LET r == Read(file, record)
           ins == InsertTocRecord(tableOfContents, TocRecordOf(r.buf))
       IN  /\ file' = r.file
           /\ record' = r.buf
           /\ tableOfContents' = ins.toc
           /\ IF ins.what # "" THEN Throw(ins.what) /\ i' = i
              ELSE /\ i' = i + 1
                   /\ err' = err
                   /\ pc' = IF ULess(i + 1, total) THEN "tocLoop"
                            ELSE "readNameList"
    /\ UNCHANGED <<inputs, recordNames, indexData, packedImages, calls, total,
                   name, recordHeader, contents, byteOffset>>

\* readNameList up to its loop
readNameList ==
    /\ pc = "readNameList"
    /\ LET namesList == findTocRecord(NameList)
       IN  IF namesList = NULL
           THEN /\ Throw("Could not find MQDB names list ToC record")
                /\ UNCHANGED <<file, i, total>>
           ELSE LET namesTotal ==
                        readUint32File(Seekg(file, namesList[1].offset
                                                   + MqrcHeaderSize))
                IN  /\ file' = namesTotal.file
                    /\ total' = namesTotal.value
                    /\ i' = 0
                    /\ err' = err
                    /\ pc' = IF ULess(0, namesTotal.value) THEN "namesLoop"
                             ELSE "readIndex"
    /\ UNCHANGED <<inputs, tables, calls, record, name, recordHeader,
                   contents, byteOffset>>

\* StoreName without its check: the last entry of a name wins
StoreNameOverwriting(names, nameString, recordId) ==
    (nameString :> recordId) @@ names

\* recordNames after the last lines of a pass of the loop: a name already
\* stored keeps its id
StoreName(names, nameString, recordId) ==
    IF nameString \in DOMAIN names THEN names
    ELSE (nameString :> recordId) @@ names

\* whether the MqrcHeader held by 28 bytes lets its name be stored
HeaderUsed(header) == Field(header, 20) # 0

\* one pass of readNameList's loop
readNameEntry ==
    /\ pc = "namesLoop"
    /\ LET rn == Read(file, name)
           nm == [rn.buf EXCEPT ![NameSize] = 0]
           rid == readUint32File(rn.file)
           recordId == rid.value
           tocRecord == findTocRecord(recordId)
           next == IF ULess(i + 1, total) THEN "namesLoop" ELSE "readIndex"
       IN  /\ name' = nm
           /\ IF tocRecord = NULL
              THEN /\ file' = rid.file
                   /\ UNCHANGED <<recordHeader, recordNames, err>>
                   /\ i' = i + 1 /\ pc' = next
              ELSE LET readPosition == Tellg(rid.file)
                       rh == Read(Seekg(rid.file, tocRecord[1].offset),
                                  recordHeader)
                   IN  /\ recordHeader' = rh.buf
                       /\ IF Field(rh.buf, 0) # mqrcSignature
                          THEN /\ Throw("Read wrong MQRC signature while processing names list")
                               /\ file' = rh.file
                               /\ UNCHANGED <<recordNames, i>>
                          ELSE /\ file' = Seekg(rh.file, readPosition)
                               /\ recordNames' =
                                    IF HeaderUsed(rh.buf)
                                    THEN StoreName(recordNames, CString(nm, 0),
                                                   recordId)
                                    ELSE recordNames
                               /\ i' = i + 1 /\ pc' = next /\ err' = err
    /\ UNCHANGED <<inputs, tableOfContents, indexData, packedImages, calls,
                   total, record, contents, byteOffset>>

----------------------------------------------------------------------------
(* Decoding a buffer.  The code checks no offset against the size of the   *)
(* buffer: a read past its end finds the bytes of the heap that follow it  *)
(* (slack), and past those the process is killed.                          *)

\* where the constructor goes after readIndex
AfterIndex == IF readImageData THEN "readImages" ELSE "done"

\* std::vector<char> of a size that cannot be allocated throws
CanAllocate(size) == size >= 0 /\ size < AllocLimit

\* readUint32(const char*, size_t&) at offset at of memory mem
readUint32(mem, at) == U32(Bytes(mem, at, Uint32Size))

Killed == [ok |-> FALSE]

\* one pass of readIndex' loop over memory mem from offset at on: the entry
\* read and the offset behind it
ReadIndexEntry(mem, at) ==
    IF at + Uint32Size > Len(mem) \/ ~HasNul(mem, at + Uint32Size) THEN Killed
    ELSE LET entryName == CString(mem, at + Uint32Size)
             behind == at + Uint32Size + Len(entryName) + 1
         IN  IF behind + 2 * Uint32Size > Len(mem) THEN Killed
             ELSE [ok |-> TRUE,
                   id |-> readUint32(mem, at),
                   name |-> entryName,
                   offset |-> readUint32(mem, behind),
                   size |-> readUint32(mem, behind + Uint32Size),
                   at |-> behind + 2 * Uint32Size]

\* lines 280-293: the entry is pushed onto `images` or `animations`, which
\* are copies of the members of indexData (declared by value), and the copy
\* is dropped at the end of the block: indexData is left as it was
StoreIndexEntry(data, e) ==
    LET images == data.images
        animations == data.animations
        pushedImages ==
            [ids |-> Append(images.ids, e.id),
             names |-> Append(images.names, e.name),
             packedInfo |-> Append(images.packedInfo, <<e.offset, e.size>>)]
        pushedAnimations ==
            [names |-> Append(animations.names, e.name),
             packedInfo |-> Append(animations.packedInfo, <<e.offset, e.size>>)]
    IN  [indexData |-> data,
         local |-> IF e.id # RecordIdMax THEN pushedImages
                   ELSE pushedAnimations].indexData

\* readIndex up to its loop
readIndex ==
    /\ pc = "readIndex"
    /\ LET rec == findTocRecordByName(indexOptRecordName)
       IN  IF rec = NULL
           THEN /\ pc' = AfterIndex
                /\ UNCHANGED <<err, file, contents, byteOffset, total, i>>
           ELSE IF ~CanAllocate(rec[1].size)
           THEN /\ Throw("std::bad_alloc")
                /\ UNCHANGED <<file, contents, byteOffset, total, i>>
           ELSE LET r == Read(Seekg(file, rec[1].offset + MqrcHeaderSize),
                              Fill(rec[1].size, 0))
                    mem == r.buf \o slack
                IN  /\ file' = r.file
                    /\ contents' = r.buf
                    /\ i' = 0
                    /\ err' = err
                    /\ IF Uint32Size > Len(mem)
                       THEN pc' = "killed" /\ UNCHANGED <<byteOffset, total>>
                       ELSE /\ total' = readUint32(mem, 0)
                            /\ byteOffset' = Uint32Size
                            /\ pc' = IF ULess(0, readUint32(mem, 0))
                                     THEN "indexLoop" ELSE AfterIndex
    /\ UNCHANGED <<inputs, tables, calls, record, name, recordHeader>>

\* one pass of readIndex' loop
readIndexEntry ==
    /\ pc = "indexLoop"
    /\ LET e == ReadIndexEntry(contents \o slack, byteOffset)
       IN  IF ~e.ok
           THEN pc' = "killed" /\ UNCHANGED <<indexData, byteOffset, i>>
           ELSE /\ indexData' = StoreIndexEntry(indexData, e)
                /\ byteOffset' = e.at
                /\ i' = i + 1
                /\ pc' = IF ULess(i + 1, total) THEN "indexLoop" ELSE AfterIndex
    /\ UNCHANGED <<inputs, tableOfContents, recordNames, packedImages, calls,
                   err, file, total, record, name, recordHeader, contents>>

\* ReadPart with the second and the third field read in the other order
ReadPartSwapped(mem, at) ==
    [sourceX |-> readUint32(mem, at),
     sourceY |-> readUint32(mem, at + 8),
     targetX |-> readUint32(mem, at + 4),
     targetY |-> readUint32(mem, at + 12),
     width |-> readUint32(mem, at + 16),
     height |-> readUint32(mem, at + 20)]

\* the ImagePart read from the 24 bytes at offset at
ReadPart(mem, at) ==
    [sourceX |-> readUint32(mem, at),
     sourceY |-> readUint32(mem, at + 4),
     targetX |-> readUint32(mem, at + 8),
     targetY |-> readUint32(mem, at + 12),
     width |-> readUint32(mem, at + 16),
     height |-> readUint32(mem, at + 20)]

PartSize == 6 * Uint32Size

\* passes j, j+1, .. of the loop over the parts of a frame
RECURSIVE ReadParts(_, _, _, _)
ReadParts(mem, at, j, partsTotal) ==
    IF ~ULess(j, partsTotal) THEN [ok |-> TRUE, at |-> at, parts |-> <<>>]
    ELSE IF at + PartSize > Len(mem) THEN Killed
    ELSE LET rest == ReadParts(mem, at + PartSize, j + 1, partsTotal)
         IN  IF ~rest.ok THEN Killed
             ELSE [ok |-> TRUE, at |-> rest.at,
                   parts |-> <<ReadPart(mem, at)>> \o rest.parts]

\* passes k, k+1, .. of the loop over the frames of a packed image
RECURSIVE ReadFrames(_, _, _, _)
ReadFrames(mem, at, k, framesTotal) ==
    IF ~ULess(k, framesTotal) THEN [ok |-> TRUE, at |-> at, frames |-> <<>>]
    ELSE IF ~HasNul(mem, at) THEN Killed
    ELSE LET frameName == CString(mem, at)
             behind == at + Len(frameName) + 1
         IN  IF behind + 3 * Uint32Size > Len(mem) THEN Killed
             ELSE LET partsTotal == readUint32(mem, behind)
                      frameWidth == readUint32(mem, behind + 4)
                      frameHeight == readUint32(mem, behind + 8)
                      ps == ReadParts(mem, behind + 12, 0, partsTotal)
                      rest == IF ps.ok
                              THEN ReadFrames(mem, ps.at, k + 1, framesTotal)
                              ELSE Killed
                  IN  IF ~rest.ok THEN Killed
                      ELSE [ok |-> TRUE, at |-> rest.at,
                            frames |-> <<[parts |-> ps.parts,
                                          name |-> frameName,
                                          width |-> frameWidth,
                                          height |-> frameHeight]>>
                                       \o rest.frames]

\* one pass of readImages' while loop: the packed image that starts at
\* offset at, and the offset behind it
ReadPackedImage(mem, at) ==
    IF at + paletteSize + Uint32Size > Len(mem) THEN Killed
    ELSE LET fs == ReadFrames(mem, at + paletteSize + Uint32Size, 0,
                              readUint32(mem, at + paletteSize))
         IN  IF ~fs.ok THEN Killed
             ELSE [ok |-> TRUE, at |-> fs.at,
                   image |-> [palette |-> Bytes(mem, at, paletteSize),
                              frames |-> fs.frames]]

\* readImages up to its loop
readImages ==
    /\ pc = "readImages"
    /\ LET rec == findTocRecordByName(imagesOptRecordName)
       IN  IF rec = NULL
           THEN /\ pc' = "done"
                /\ UNCHANGED <<err, file, contents, byteOffset>>
           ELSE IF ~CanAllocate(rec[1].size)
           THEN /\ Throw("std::bad_alloc")
                /\ UNCHANGED <<file, contents, byteOffset>>
           ELSE LET r == Read(Seekg(file, rec[1].offset + MqrcHeaderSize),
                              Fill(rec[1].size, 0))
                IN  /\ file' = r.file
                    /\ contents' = r.buf
                    /\ byteOffset' = 0
                    /\ err' = err
                    /\ pc' = IF 0 < rec[1].size THEN "imagesLoop" ELSE "done"
    /\ UNCHANGED <<inputs, tables, calls, i, total, record, name, recordHeader>>

\* one pass of readImages' while loop
readPackedImage ==
    /\ pc = "imagesLoop"
    /\ LET r == ReadPackedImage(contents \o slack, byteOffset)
       IN  IF ~r.ok
           THEN pc' = "killed" /\ UNCHANGED <<packedImages, byteOffset>>
           ELSE /\ packedImages' = (byteOffset :> r.image) @@ packedImages
                /\ byteOffset' = r.at
                /\ pc' = IF r.at < Len(contents) THEN "imagesLoop" ELSE "done"
    /\ UNCHANGED <<inputs, tableOfContents, recordNames, indexData, calls, err,
                   file, i, total, record, name, recordHeader, contents>>

----------------------------------------------------------------------------
(* The record accessor of a constructed decoder.                           *)

\* the names "A", "B" and "Z"
NameA == <<65>>
NameB == <<66>>
NameZ == <<90>>

\* what the callers pass: names and ids, stored or not, and vectors that are
\* empty or hold the bytes of an earlier use
CallNames == {NameA, NameB, NameZ}
CallIds == {4, 5, 9}
CallerData == {<<>>, <<1, 1, 1, 1>>}

\* data.resize(size)
Resize(data, size) ==
    IF Len(data) >= size THEN SubSeq(data, 1, size)
    ELSE data \o Fill(size - Len(data), 0)

\* getRecordData(const TocRecord&, std::vector<char>&) on the caller's data
\* when the file opens (opened) or not: [ret, data]
getRecordData(rec, data, opened) ==
    IF ~opened THEN [ret |-> FALSE, data |-> data]
    ELSE LET f == Seekg([pos |-> 0, fail |-> FALSE], rec.offset + MqrcHeaderSize)
         IN  [ret |-> TRUE, data |-> Read(f, Resize(data, rec.size)).buf]

\* what either public getRecordData does with what its lookup found
getRecordDataOf(found, data, opened) ==
    IF found = NULL THEN [ret |-> FALSE, data |-> data]
    ELSE getRecordData(found[1], data, opened)

\* getRecordData(recordName, data) on a vector the caller passes
getRecordDataByName ==
    /\ pc = "done"
    /\ \E recordName \in CallNames, data \in CallerData :
          LET found == findTocRecordByName(recordName)
          IN  /\ found # NULL => CanAllocate(found[1].size)
              /\ byName' = [arg |-> recordName, called |-> TRUE, given |-> data]
                           @@ getRecordDataOf(found, data, canOpen)
    /\ UNCHANGED <<inputs, tables, byId, pc, err, file, i, total, record, name,
                   recordHeader, contents, byteOffset>>

\* getRecordData(recordId, data) on a vector the caller passes
getRecordDataById ==
    /\ pc = "done"
    /\ \E recordId \in CallIds, data \in CallerData :
          LET found == findTocRecord(recordId)
          IN  /\ found # NULL => CanAllocate(found[1].size)
              /\ byId' = [arg |-> recordId, called |-> TRUE, given |-> data]
                         @@ getRecordDataOf(found, data, canOpen)
    /\ UNCHANGED <<inputs, tables, byName, pc, err, file, i, total, record,
                   name, recordHeader, contents, byteOffset>>

----------------------------------------------------------------------------
(* The files the decoder is run on.  Each is built, byte by byte, from a   *)
(* description (given): a name list record (id 2), two data records (ids 4 *)
(* and 5), and where asked for an '-INDEX.OPT' record (id 6) and an        *)
(* '-IMAGES.OPT' record (id 7).                                            *)

MaxTocExtra == 2
MaxNames == 2
MaxIndex == 2
MaxImages == 2
MaxFrames == 2
MaxParts == 1
CutStride == 7

\* sequences over S of length 0..n
RECURSIVE SeqsUpTo(_, _)
SeqsUpTo(S, n) ==
    IF n = 0 THEN {<<>>}
    ELSE LET shorter == SeqsUpTo(S, n - 1)
         IN  shorter \cup {Append(q, x) : q \in {t \in shorter : Len(t) = n - 1},
                                          x \in S}

Rec(id, used, payload) ==
    [id |-> id, signature |-> mqrcSignature, used |-> used,
     payload |-> payload, size |-> Len(payload), offset |-> -1]

\* part j of frame m of image k: six different values
PartAt(k, m, j) ==
    LET base == 1000 * k + 100 * m + 10 * j
    IN  [sourceX |-> base + 1, sourceY |-> base + 2, targetX |-> base + 3,
         targetY |-> base + 4, width |-> base + 5, height |-> base + 6]

\* frame m of image k; p sets the numbers of parts
FrameAt(k, m, p) ==
    [parts |-> [j \in 1..(IF m % 2 = 1 THEN p ELSE MaxParts - p) |->
                    PartAt(k, m, j)],
     name |-> Fill((m + k) % 3, 69 + m),
     width |-> 1000 * k + 100 * m + 7,
     height |-> 1000 * k + 100 * m + 8]

\* image k; f sets the numbers of frames
ImageAt(k, f, p) ==
    [palette |-> [x \in 1..paletteSize |-> (x + k) % 256],
     frames |-> [m \in 1..(IF k % 2 = 1 THEN f ELSE MaxFrames - f) |->
                    FrameAt(k, m, p)]]

ImagesOf(g) == [k \in 1..g.images[1] |-> ImageAt(k, g.images[2], g.images[3])]

\* the entries '-INDEX.OPT' is drawn from: two images and an animation
IndexEntries ==
    {[id |-> 4, name |-> NameA, offset |-> 0, size |-> 1039],
     [id |-> 5, name |-> <<66, 67>>, offset |-> 1039, size |-> 1063],
     [id |-> RecordIdMax, name |-> NameA, offset |-> 2102, size |-> 2078]}

\* the name list of a description: its names, then the names of the records
\* '-INDEX.OPT' and '-IMAGES.OPT' where the file has them
NamesOf(g) ==
    g.names
    \o (IF g.hasIndex THEN <<[name |-> indexOptRecordName, id |-> 6]>> ELSE <<>>)
    \o (IF g.hasImages THEN <<[name |-> imagesOptRecordName, id |-> 7]>> ELSE <<>>)

\* the payload of '-IMAGES.OPT': as encoded, or with the frame count of the
\* first image raised by g.inflate
ImagesBytesOf(g) ==
    LET enc == ImagesPayload(ImagesOf(g))
    IN  IF g.inflate > 0 /\ Len(enc) > paletteSize
        THEN [enc EXCEPT ![paletteSize + 1] = @ + g.inflate] ELSE enc

\* record 5 as the description asks for it: used, unused, under a wrong
\* signature, or with a ToC offset behind the end of the file
Rec5(g) ==
    LET r == Rec(5, IF g.state5 = "unused" THEN 0 ELSE 1, <<20, 21>>)
    IN  CASE g.state5 = "badsig" -> [r EXCEPT !.signature = mqdbFileSignature]
          [] g.state5 = "beyond" -> [r EXCEPT !.offset = AllocLimit]
          [] OTHER -> r

ContainerOf(g) ==
    LET images == ImagesBytesOf(g)
    IN  [signature |-> g.signature, version |-> g.version,
         tocFront |-> g.tocFront, cut |-> g.cut,
         tocExtra |-> [k \in 1..Len(g.extra) |->
                          [recordId |-> g.extra[k], size |-> 1,
                           sizeAllocated |-> 1, offset |-> MqdbHeaderSize]],
         recs |-> <<Rec(NameList, 1, NameListPayload(NamesOf(g)))>>
                  \o (IF g.hasIndex
                      THEN <<Rec(6, 1, IndexPayload(g.index))>> ELSE <<>>)
                  \o (IF g.hasImages
                      THEN <<[Rec(7, 1, images) EXCEPT
                                 !.size = Len(images) - g.short]>>
                      ELSE <<>>)
                  \o <<Rec(4, g.used4, <<10, 11, 12>>), Rec5(g)>>]

Plain ==
    [family |-> "header", signature |-> mqdbFileSignature,
     version |-> mqdbFileVersion, tocFront |-> FALSE, cut |-> -1,
     extra |-> <<>>, names |-> <<[name |-> NameA, id |-> 4],
                                 [name |-> NameB, id |-> 5]>>,
     used4 |-> 1, state5 |-> "used", hasIndex |-> FALSE, index |-> <<>>,
     hasImages |-> FALSE, images |-> <<0, 0, 0>>, short |-> 0, inflate |-> 0]

HeaderFiles ==
    {[Plain EXCEPT !.signature = sg, !.version = v] :
        sg \in {mqdbFileSignature, mqrcSignature, 0},
        v \in {mqdbFileVersion - 1, mqdbFileVersion, mqdbFileVersion + 1}}

TocFiles ==
    {[Plain EXCEPT !.family = "toc", !.extra = x] :
        x \in SeqsUpTo({NameList, 4, 8}, MaxTocExtra)}

NameFiles ==
    {[Plain EXCEPT !.family = "names", !.names = ns, !.state5 = st] :
        ns \in SeqsUpTo({[name |-> NameA, id |-> 4], [name |-> NameA, id |-> 5],
                         [name |-> NameB, id |-> 4], [name |-> NameB, id |-> 5],
                         [name |-> NameA, id |-> 9]}, MaxNames),
        st \in {"used", "unused", "badsig", "beyond"}}

\* name lists of up to MaxNames entries behind a first entry, so that the
\* loop of readNameList has passes behind a pass that looked at a record
PeekFiles ==
    {[Plain EXCEPT !.family = "peek", !.names = <<first>> \o ns, !.state5 = st] :
        first \in {[name |-> NameA, id |-> 4], [name |-> NameA, id |-> 9]},
        ns \in SeqsUpTo({[name |-> NameA, id |-> 4], [name |-> NameB, id |-> 5],
                         [name |-> NameB, id |-> 9]}, MaxNames),
        st \in {"used", "unused", "beyond"}}

IndexFiles ==
    {[Plain EXCEPT !.family = "index", !.hasIndex = TRUE, !.index = ix] :
        ix \in SeqsUpTo(IndexEntries, MaxIndex)}

ImageFiles ==
    {[Plain EXCEPT !.family = "images", !.hasImages = TRUE,
                   !.images = <<n, f, p>>] :
        n \in 0..MaxImages, f \in 0..MaxFrames, p \in 0..MaxParts}

\* '-IMAGES.OPT' under a declared size that is too small, or with a frame
\* count that is too large
BrokenImageFiles ==
    {g \in {[Plain EXCEPT !.family = "broken", !.hasImages = TRUE,
                          !.images = <<n, 1, 1>>, !.short = d, !.inflate = e] :
                n \in 1..MaxImages, d \in {0, 1, 30}, e \in {0, 1}} :
        g.short + g.inflate > 0}

\* files that end early, the ToC in front so that it can survive the cut
\* (every cut into the header and the ToC offset, then one in CutStride)
CutFiles ==
    LET whole == [Plain EXCEPT !.family = "cut", !.tocFront = TRUE,
                               !.hasIndex = TRUE,
                               !.index = <<CHOOSE e \in IndexEntries : e.id = 4>>]
        size == Len(Container(ContainerOf(whole)))
    IN  {[whole EXCEPT !.cut = c] :
            c \in {k \in 0..(size - 1) :
                      k < MqdbHeaderSize + Uint32Size \/ k % CutStride = 0}}

Files ==
    HeaderFiles \cup TocFiles \cup NameFiles \cup PeekFiles \cup IndexFiles
    \cup ImageFiles
    \cup BrokenImageFiles \cup CutFiles

Init ==
    /\ given \in Files
    /\ ffFile = Container(ContainerOf(given))
    /\ canOpen \in BOOLEAN
    /\ given.family # "header" => canOpen
    /\ readImageData \in BOOLEAN
    /\ given.family \notin {"images", "broken"} => readImageData
    /\ stackFill \in {0, 204}
    /\ given.family # "cut" /\ given.state5 # "beyond" => stackFill = 0
    /\ slack \in {<<>>, Fill(SlackSize, 0)}
    /\ given.family # "broken" => slack = <<>>
    /\ pc = "open"
    /\ err = ""
    /\ file = [pos |-> 0, fail |-> FALSE]
    /\ tableOfContents = EmptyMap
    /\ recordNames = EmptyMap
    /\ indexData = [images |-> [ids |-> <<>>, names |-> <<>>, packedInfo |-> <<>>],
                    animations |-> [names |-> <<>>, packedInfo |-> <<>>]]
    /\ packedImages = EmptyMap
    /\ i = 0
    /\ total = 0
    /\ record = Fill(TocRecordSize, stackFill)
    /\ name = Fill(NameSize, stackFill)
    /\ recordHeader = Fill(MqrcHeaderSize, stackFill)
    /\ contents = <<>>
    /\ byteOffset = 0
    /\ byName = [arg |-> <<>>, called |-> FALSE, given |-> <<>>, ret |-> FALSE,
                 data |-> <<>>]
    /\ byId = [arg |-> 0, called |-> FALSE, given |-> <<>>, ret |-> FALSE,
               data |-> <<>>]

Next ==
    \/ Open
    \/ checkFileHeader
    \/ readTableOfContents
    \/ readTocRecord
    \/ readNameList
    \/ readNameEntry
    \/ readIndex
    \/ readIndexEntry
    \/ readImages
    \/ readPackedImage
    \/ getRecordDataByName
    \/ getRecordDataById

Spec == Init /\ [][Next]_vars

----------------------------------------------------------------------------
(* Properties.                                                             *)

\* whether readIndex has run to its end
IndexRead == pc \in {"readImages", "imagesLoop", "done"}

IsImage(e) == e.id # RecordIdMax
IsAnimation(e) == e.id = RecordIdMax

\* the IndexData that holds every entry of a payload, in payload order
IndexDataOf(entries) ==
    LET im == SelectSeq(entries, IsImage)
        an == SelectSeq(entries, IsAnimation)
    IN  [images |-> [ids |-> [k \in 1..Len(im) |-> im[k].id],
                     names |-> [k \in 1..Len(im) |-> im[k].name],
                     packedInfo |-> [k \in 1..Len(im) |->
                                        <<im[k].offset, im[k].size>>]],
         animations |-> [names |-> [k \in 1..Len(an) |-> an[k].name],
                         packedInfo |-> [k \in 1..Len(an) |->
                                            <<an[k].offset, an[k].size>>]]]

\* C1: after readIndex has run on a container with a used '-INDEX.OPT'
\* record, indexData holds every entry of the payload in payload order, the
\* entries with id 0xFFFFFFFF in animations and the others in images.
C1_IndexDataHoldsEveryEntry ==
    (given.family = "index" /\ IndexRead) => indexData = IndexDataOf(given.index)

\* C2: decoding '-IMAGES.OPT' never reads a byte at or behind the end of the
\* buffer of the declared size: a payload that would need it makes the
\* constructor throw.
C2_NoReadPastThePayload ==
    (given.hasImages /\ pc \in {"imagesLoop", "done", "killed"})
        => pc # "killed" /\ byteOffset <= Len(contents)

\* C3: a constructor that had a read fail throws: no decoder is constructed
\* from a stream whose failbit is set.
C3_FailedReadAbortsConstruction == pc = "done" => ~file.fail

\* whether the size bytes of the payload of a ToC record are all in the file
PayloadInFile(rec) ==
    /\ rec.offset >= 0 /\ rec.size >= 0
    /\ rec.offset + MqrcHeaderSize + rec.size <= Len(ffFile)

PayloadOf(rec) == Bytes(ffFile, rec.offset + MqrcHeaderSize, rec.size)

\* the three outcomes of C4 for a call that found `found`
ThreeOutcomes(found, call) ==
    IF found = NULL THEN call.ret = FALSE
    ELSE IF PayloadInFile(found[1])
    THEN call.ret = TRUE /\ call.data = PayloadOf(found[1])
    ELSE call.ret # TRUE

\* C4: getRecordData returns a negative result for an id or name that
\* resolves to no ToC entry, success with the entry.size bytes at
\* entry.offset + 28 for a payload that can be read, and no success for a
\* payload the stream cannot deliver in full.
C4_GetRecordDataThreeOutcomes ==
    /\ byName.called => ThreeOutcomes(findTocRecordByName(byName.arg), byName)
    /\ byId.called => ThreeOutcomes(findTocRecord(byId.arg), byId)

\* whether the file holds, at offset at, a whole MqrcHeader with the MQRC
\* signature and used # 0
UsedHeaderAt(at) ==
    /\ at >= 0 /\ at + MqrcHeaderSize <= Len(ffFile)
    /\ Field(Bytes(ffFile, at, MqrcHeaderSize), 0) = mqrcSignature
    /\ Field(Bytes(ffFile, at, MqrcHeaderSize), 20) # 0

\* C5: in a constructed decoder every name of recordNames maps to an id of
\* the ToC whose sub-record header, at the offset of that ToC entry, has the
\* MQRC signature and used # 0.
C5_NamesResolveToUsedRecords ==
    pc = "done" =>
        \A n \in DOMAIN recordNames :
            /\ recordNames[n] \in DOMAIN tableOfContents
            /\ UsedHeaderAt(tableOfContents[recordNames[n]].offset)

\* the ToC as the file holds it: its offset, its count, its k-th entry
TocAt == Field(ffFile, MqdbHeaderSize)
TocCount == Field(ffFile, TocAt)
TocEntry(k) ==
    TocRecordOf(Bytes(ffFile, TocAt + Uint32Size + (k - 1) * TocRecordSize,
                      TocRecordSize))

\* whether the file holds its whole ToC, so that every entry can be read
WholeToc ==
    /\ Len(ffFile) >= MqdbHeaderSize + Uint32Size
    /\ TocAt >= 0 /\ TocAt + Uint32Size <= Len(ffFile)
    /\ TocCount >= 0
    /\ TocAt + Uint32Size + TocCount * TocRecordSize <= Len(ffFile)

TocDuplicate ==
    \E a, b \in 1..TocCount :
        a < b /\ TocEntry(a).recordId = TocEntry(b).recordId

\* whether the constructor ended in the header stage, or in front of it
HeaderStageError ==
    pc = "threw" /\ err \in {"Could not open MQDB file", "Not a MQDB file",
                             "Wrong MQDB file version"}

\* whether readTableOfContents has ended, by a throw or by its last pass
TocRead ==
    /\ pc \notin {"open", "checkFileHeader", "readTableOfContents", "tocLoop"}
    /\ ~HeaderStageError

NonUniqueIds == "MQDB ToC contains records with non-unique ids"

\* C6: readTableOfContents throws if and only if two of the entriesTotal
\* entries it reads carry the same recordId; when it does not throw, the
\* mapping holds each of the entries read under its recordId, none skipped.
C6_TocThrowsIffDuplicateId ==
    (WholeToc /\ TocRead) =>
        IF TocDuplicate THEN pc = "threw" /\ err = NonUniqueIds
        ELSE /\ err # NonUniqueIds
             /\ DOMAIN tableOfContents = {TocEntry(k).recordId : k \in 1..TocCount}
             /\ \A k \in 1..TocCount :
                    tableOfContents[TocEntry(k).recordId] = TocEntry(k)

C6_Witness ==
    WholeToc /\ TocDuplicate /\ pc = "threw" /\ err = NonUniqueIds

\* whether no stage behind the header stage has run
NoLaterStage ==
    /\ tableOfContents = EmptyMap /\ recordNames = EmptyMap
    /\ packedImages = EmptyMap
    /\ file.pos <= MqdbHeaderSize

\* C7: on a file that holds the 24 bytes of a header, the constructor gets
\* past the header stage only if they carry the signature 'MQDB' and the
\* version 9: any other signature and, under the right signature, any other
\* version make it throw, and no later stage runs.
C7_HeaderGate ==
    (Len(ffFile) >= MqdbHeaderSize /\ canOpen
     /\ pc \notin {"open", "checkFileHeader"}) =>
        IF Field(ffFile, 0) # mqdbFileSignature
        THEN pc = "threw" /\ err = "Not a MQDB file" /\ NoLaterStage
        ELSE IF Field(ffFile, 8) # mqdbFileVersion
        THEN pc = "threw" /\ err = "Wrong MQDB file version" /\ NoLaterStage
        ELSE ~HeaderStageError

C7_Witness ==
    /\ Len(ffFile) >= MqdbHeaderSize
    /\ Field(ffFile, 0) = mqdbFileSignature
    /\ Field(ffFile, 8) # mqdbFileVersion
    /\ pc = "threw" /\ err = "Wrong MQDB file version"

\* whether a name list entry passes the checks of readNameList: its id is in
\* the ToC and the header of that record is used
Passes(e) ==
    /\ e.id \in DOMAIN tableOfContents
    /\ UsedHeaderAt(tableOfContents[e.id].offset)

\* the first entry of the name list es that has the name n and passes
FirstPassing(es, n) ==
    CHOOSE k \in 1..Len(es) :
        /\ es[k].name = n /\ Passes(es[k])
        /\ \A j \in 1..(k - 1) : ~(es[j].name = n /\ Passes(es[j]))

\* C8: when readNameList has read the whole name list, a name that several
\* entries carry is mapped to the id of the first of them that passes the
\* checks; the later ones change nothing.
C8_FirstNameWins ==
    (pc = "readIndex" /\ ~file.fail) =>
        LET es == NamesOf(given)
        IN  /\ \A n \in DOMAIN recordNames :
                   \E k \in 1..Len(es) : es[k].name = n /\ Passes(es[k])
            /\ \A k \in 1..Len(es) :
                   Passes(es[k]) =>
                       /\ es[k].name \in DOMAIN recordNames
                       /\ recordNames[es[k].name]
                            = es[FirstPassing(es, es[k].name)].id

C8_Witness ==
    /\ pc = "readIndex" /\ ~file.fail
    /\ \E j, k \in 1..Len(NamesOf(given)) :
          /\ j < k
          /\ NamesOf(given)[j].name = NamesOf(given)[k].name
          /\ NamesOf(given)[j].id # NamesOf(given)[k].id
          /\ Passes(NamesOf(given)[j]) /\ Passes(NamesOf(given)[k])
          /\ recordNames[NamesOf(given)[k].name] = NamesOf(given)[j].id

\* C9: a name of recordNames and the id it is mapped to fetch the same: the
\* two calls return the same value and leave the same bytes, the entry.size
\* bytes stored at entry.offset + 28.
C9_ByNameEqualsById ==
    (/\ byName.called /\ byId.called
     /\ byName.arg \in DOMAIN recordNames
     /\ byId.arg = recordNames[byName.arg]
     /\ byId.arg \in DOMAIN tableOfContents) =>
        /\ byName.ret = byId.ret
        /\ byName.data = byId.data
        /\ Len(byName.data) = tableOfContents[byId.arg].size
        /\ PayloadInFile(tableOfContents[byId.arg])
        /\ byName.data = PayloadOf(tableOfContents[byId.arg])

\* the offset at which image k of a payload starts
RECURSIVE ImageStart(_, _)
ImageStart(images, k) ==
    IF k = 1 THEN 0
    ELSE ImageStart(images, k - 1) + Len(PackedImageBytes(images[k - 1]))

\* the offset->image table of a payload: one image per palette start
ImageTable(images) ==
    [at \in {ImageStart(images, k) : k \in 1..Len(images)} |->
        images[CHOOSE k \in 1..Len(images) : ImageStart(images, k) = at]]

\* whether '-IMAGES.OPT' is there, well-formed under its declared size, and
\* asked for
WellFormedImages ==
    given.hasImages /\ given.short = 0 /\ given.inflate = 0 /\ readImageData

NamesAt == tableOfContents[NameList].offset + MqrcHeaderSize
NamesCount == Field(ffFile, NamesAt)
NameEntryAt(k) == NamesAt + Uint32Size + (NameSize + Uint32Size) * k

\* whether the file holds its whole name list, so that every entry of it
\* can be read
WholeNameList ==
    /\ NameList \in DOMAIN tableOfContents
    /\ NamesAt >= 0 /\ NamesAt + Uint32Size <= Len(ffFile)
    /\ NamesCount >= 0
    /\ NameEntryAt(NamesCount) <= Len(ffFile)

\* C11: on a file that holds its whole name list, the look at the header of
\* a record never disturbs the loop of readNameList: pass i starts with the
\* read cursor at payload start + 4 + 260 * i, whatever the passes before
\* it did, each pass has read the name of its own entry, and the loop ends
\* with the last of the count entries.
C11_PeekKeepsTheCursor ==
    (WholeNameList /\ pc \in {"namesLoop", "readIndex"}) =>
        /\ total = NamesCount
        /\ pc = "namesLoop" => Tellg(file) = NameEntryAt(i)
        /\ i > 0 => name = [Bytes(ffFile, NameEntryAt(i - 1), NameSize)
                               EXCEPT ![NameSize] = 0]
        /\ pc = "readIndex" => i = total

====
